---- MODULE Spec2Model ----
(***************************************************************************)
(* Ping-pong over a length-prefixed TCP stream: the threaded server of     *)
(* tcpserver.py (Handler, ThreadedTCPServer) and the load-test client of   *)
(* tcplocust.py (TcpSocketLocust, UserBehavior).                           *)
(*                                                                         *)
(* A byte is a number 0..255, a byte string a sequence of bytes.  Every    *)
(* blocking socket call (connect, recv, sendall, close) is one step of the *)
(* thread that makes it; the statements between two calls run with it.     *)
(***************************************************************************)
EXTENDS Integers, Sequences, FiniteSets, TLC

\* ----------------------------------------------------------------- bounds
\* Task invocations the scheduler makes on one simulated client.
MaxTasks == 2
\* Longest payload of the frame round trip.
MaxLen == 2

\* Two connections, each with one client and one server worker.  Connection 1
\* is the one the environment disturbs (another peer's bytes, a peer's close,
\* a reset); connection 2 is a simulated client and its worker, left alone.
Conns == {1, 2}
Disturbed == {1}

\* ------------------------------------------------------------------ bytes
Ping == <<80, 105, 110, 103>>
Pong == <<80, 111, 110, 103>>
Pingx == <<80, 105, 110, 103, 120>>

Min(a, b) == IF a < b THEN a ELSE b

\* Mutant of to_bytes: n.to_bytes(4, 'big')
to_bytes_big(n) == [i \in 1..4 |-> (n \div (256 ^ (4 - i))) % 256]

\* n.to_bytes(4, 'little')
to_bytes(n) == [i \in 1..4 |-> (n \div (256 ^ (i - 1))) % 256]

\* Mutant of from_bytes: length = header[0]
from_bytes_first(b) == IF b = <<>> THEN 0 ELSE b[1]

\* int.from_bytes(b, 'little')
RECURSIVE from_bytes(_)
from_bytes(b) ==
    IF b = <<>> THEN 0 ELSE b[1] + 256 * from_bytes(Tail(b))

IsCont(x) == x >= 128 /\ x <= 191

\* bytes.decode("utf-8"): the code points, or DecodeError (UnicodeDecodeError).
DecodeError == <<-1>>

RECURSIVE decode(_)
decode(b) ==
    IF b = <<>> THEN <<>>
    ELSE LET x == b[1]
             n == IF x < 128 THEN 1
                  ELSE IF x >= 194 /\ x <= 223 THEN 2
                  ELSE IF x >= 224 /\ x <= 239 THEN 3
                  ELSE IF x >= 240 /\ x <= 244 THEN 4
                  ELSE 0
             ok == /\ n > 0
                   /\ Len(b) >= n
                   /\ \A i \in 2..n : IsCont(b[i])
                   /\ (x = 224 => b[2] >= 160)
                   /\ (x = 237 => b[2] <= 159)
                   /\ (x = 240 => b[2] >= 144)
                   /\ (x = 244 => b[2] <= 143)
             cp == IF n = 1 THEN x
                   ELSE IF n = 2 THEN (x - 192) * 64 + (b[2] - 128)
                   ELSE IF n = 3 THEN (x - 224) * 4096 + (b[2] - 128) * 64
                                      + (b[3] - 128)
                   ELSE (x - 240) * 262144 + (b[2] - 128) * 4096
                        + (b[3] - 128) * 64 + (b[4] - 128)
             rest == IF ok THEN decode(SubSeq(b, n + 1, Len(b))) ELSE DecodeError
         IN IF ~ok \/ rest = DecodeError THEN DecodeError ELSE <<cp>> \o rest

\* str.encode(): the strings of this program are ASCII.
encode(s) == s

\* socket.recv(bufsize) on a stream holding buf: any non-empty prefix of at
\* most bufsize bytes.
recv(buf, bufsize) ==
    {SubSeq(buf, 1, k) : k \in 1..Min(bufsize, Len(buf))}

\* Mutant of Handler_read_bytes: recv(length), not recv(length - len(data)).
Handler_read_bytes_overread(data, length, buf, eof) ==
    IF buf # <<>>
    THEN {[data |-> data \o chunk,
           rest |-> SubSeq(buf, Len(chunk) + 1, Len(buf)),
           exc |-> "none"] : chunk \in recv(buf, length)}
    ELSE IF eof
         THEN {[data |-> data, rest |-> buf, exc |-> "Error reading bytes."]}
         ELSE {}

\* Mutant of Handler_read_bytes: no else branch, an empty chunk is ignored and
\* the loop goes on.
Handler_read_bytes_spin(data, length, buf, eof) ==
    IF buf # <<>>
    THEN {[data |-> data \o chunk,
           rest |-> SubSeq(buf, Len(chunk) + 1, Len(buf)),
           exc |-> "none"] : chunk \in recv(buf, length - Len(data))}
    ELSE IF eof
         THEN {[data |-> data, rest |-> buf, exc |-> "none"]}
         ELSE {}

\* One iteration of Handler.read_bytes' loop (len(data) < length): what the
\* recv leaves.  No result: the call blocks.
ServerReadErrorMsg == "Error reading bytes."
Handler_read_bytes(data, length, buf, eof) ==
    IF buf # <<>>
    THEN {[data |-> data \o chunk,
           rest |-> SubSeq(buf, Len(chunk) + 1, Len(buf)),
           exc |-> "none"] : chunk \in recv(buf, length - Len(data))}
    ELSE IF eof
         THEN {[data |-> data, rest |-> buf, exc |-> ServerReadErrorMsg]}
         ELSE {}

\* Mutant of Locust_read_bytes: no else branch, an empty chunk is ignored and
\* the loop goes on.
Locust_read_bytes_spin(data, length, buf, eof) ==
    IF buf # <<>>
    THEN {[data |-> data \o chunk,
           rest |-> SubSeq(buf, Len(chunk) + 1, Len(buf)),
           exc |-> "none"] : chunk \in recv(buf, length - Len(data))}
    ELSE IF eof
         THEN {[data |-> data, rest |-> buf, exc |-> "none"]}
         ELSE {}

\* One iteration of TcpSocketLocust.read_bytes' loop.
ClientReadErrorMsg == "Error reading bytes."
Locust_read_bytes(data, length, buf, eof) ==
    IF buf # <<>>
    THEN {[data |-> data \o chunk,
           rest |-> SubSeq(buf, Len(chunk) + 1, Len(buf)),
           exc |-> "none"] : chunk \in recv(buf, length - Len(data))}
    ELSE IF eof
         THEN {[data |-> data, rest |-> buf, exc |-> ClientReadErrorMsg]}
         ELSE {}

\* Mutant of sendall: socket.send(data), which may send a part of data and
\* raise nothing.
sendall_send(data, mustFail, mayFail) ==
    IF mustFail THEN {[sent |-> <<>>, exc |-> "OSError"]}
    ELSE {[sent |-> SubSeq(data, 1, k), exc |-> "none"] : k \in 1..Len(data)}

\* socket.sendall(data): what reaches the stream and what is raised.  With
\* the connection reset, or on a socket that is not connected, it raises and
\* sends nothing; once the peer has closed it may still succeed or raise after
\* any part of data was sent (sendall does not tell how much).
sendall(data, mustFail, mayFail) ==
    (IF mustFail THEN {[sent |-> <<>>, exc |-> "OSError"]}
     ELSE {[sent |-> data, exc |-> "none"]})
    \cup
    (IF mayFail /\ ~mustFail
     THEN {[sent |-> SubSeq(data, 1, k), exc |-> "OSError"] :
              k \in 0..(Len(data) - 1)}
     ELSE {})

\* ------------------------------------------------------------------ state
VARIABLES
    kind,       \* who is on the connection: "both" (TcpSocketLocust and
                \* Handler), "rawclient" (another client and Handler),
                \* "rawserver" (TcpSocketLocust and another server)
    c_pc,       \* position of the simulated client's thread
    c_sock,     \* TcpSocketLocust.socket: "new", "connected", "closed"
    c_data,     \* read_bytes' data
    c_length,   \* read_bytes' length
    c_exc,      \* the exception being handled or propagating ("none")
    running,    \* UserBehavior.running
    events,     \* what events.request_success / request_failure fired
    tasks,      \* invocations of the task UserBehavior.ping_pong
    s_pc,       \* position of the server's worker thread
    s_sock,     \* Handler.request: "none", "open", "closed"
    s_data,     \* read_bytes' data
    s_length,   \* read_bytes' length
    s_exc,      \* what the handler printed ("none")
    c2s,        \* bytes sent to the server and not yet received
    s2c,        \* bytes sent to the client and not yet received
    wire,       \* every write that reached the stream: <<side, bytes>>
    broken,     \* the connection was reset by the network
    rawWritten, \* the peer that is not this program has written its bytes
    cycles,     \* calls of TcpSocketLocust.ping_pong (cycles attempted)
    s_got,      \* the payloads read_bytes has returned to Handler.handle
    fr_side,    \* frame exchange: whose read_bytes reads ("server", "client")
    fr_payload, \* the payload the writer frames
    fr_next,    \* the bytes the writer sends after the frame
    fr_wpc,     \* the writer's position
    fr_sent,    \* every byte the writer has put on the stream
    fr_stream,  \* the bytes on the stream not yet received
    fr_eof,     \* the writer's end is closed
    fr_pc,      \* the reader's position
    fr_data,    \* read_bytes' data
    fr_length,  \* read_bytes' length
    fr_exc,     \* what the frame read raised ("none")
    fr_recvs,   \* recv calls the frame read has made
    hd_pc,      \* header conversion: what is done next
    hd_from,    \* what the conversion starts from: "length" or "header"
    hd_in,      \* the length, or the header, the conversion starts from
    hd_length,  \* length
    hd_header   \* header

connVars == <<kind, c_pc, c_sock, c_data, c_length, c_exc, running, events,
              tasks, s_pc, s_sock, s_data, s_length, s_exc, c2s, s2c, wire,
              broken, rawWritten, cycles, s_got>>

headerVars == <<hd_pc, hd_from, hd_in, hd_length, hd_header>>

frameVars == <<fr_side, fr_payload, fr_next, fr_wpc, fr_sent, fr_stream,
               fr_eof, fr_pc, fr_data, fr_length, fr_exc, fr_recvs, headerVars>>

vars == <<connVars, frameVars>>

clientVars == <<c_pc, c_sock, c_data, c_length, c_exc, running, events, tasks>>
serverVars == <<s_pc, s_sock, s_data, s_length, s_exc>>

Kinds == {"both", "rawclient", "rawserver"}

IsLocust(c) == kind[c] \in {"both", "rawserver"}
IsHandler(c) == kind[c] \in {"both", "rawclient"}

\* TcpSocketLocust.__init__ and UserBehavior.__init__; the server is
\* listening (serve_forever) and no connection is made yet.
InitConns ==
    /\ kind \in {k \in [Conns -> Kinds] :
                    \A c \in Conns \ Disturbed : k[c] = "both"}
    /\ c_pc = [c \in Conns |-> "start"]
    /\ c_sock = [c \in Conns |-> "new"]
    /\ c_data = [c \in Conns |-> <<>>]
    /\ c_length = [c \in Conns |-> 0]
    /\ c_exc = [c \in Conns |-> "none"]
    /\ running = [c \in Conns |-> TRUE]
    /\ events = [c \in Conns |-> <<>>]
    /\ tasks = [c \in Conns |-> 0]
    /\ s_pc = [c \in Conns |-> "listen"]
    /\ s_sock = [c \in Conns |-> "none"]
    /\ s_data = [c \in Conns |-> <<>>]
    /\ s_length = [c \in Conns |-> 0]
    /\ s_exc = [c \in Conns |-> "none"]
    /\ c2s = [c \in Conns |-> <<>>]
    /\ s2c = [c \in Conns |-> <<>>]
    /\ wire = [c \in Conns |-> <<>>]
    /\ broken = [c \in Conns |-> FALSE]
    /\ rawWritten = [c \in Conns |-> FALSE]
    /\ cycles = [c \in Conns |-> 0]
    /\ s_got = [c \in Conns |-> <<>>]

\* ----------------------------------------------------------------- events
\* events.request_success.fire(request_type="tcp", name=..., response_time=...,
\* response_length=...); the elapsed time is not modelled.
request_success(name, response_length) ==
    [hook |-> "request_success", request_type |-> "tcp", name |-> name,
     response_length |-> response_length]

\* events.request_failure.fire(request_type="tcp", name=..., response_time=...,
\* exception=e)
request_failure(name, e) ==
    [hook |-> "request_failure", request_type |-> "tcp", name |-> name,
     exception |-> e]

\* The stream after a write: the bytes sent are queued for the peer and logged.
Written(log, side, sent) ==
    IF sent = <<>> THEN log ELSE Append(log, <<side, sent>>)

\* ----------------------------------------------------------------- client
PeerOfClientClosed(c) == s_sock[c] = "closed"
PeerOfServerClosed(c) == c_sock[c] = "closed"

\* Mutant of on_start: connect's except clause without raise e, so that
\* on_start sees no exception and leaves the running flag on.
on_start_noraise(c) ==
    /\ IsLocust(c)
    /\ c_pc[c] = "start"
    /\ \/ /\ c_sock' = [c_sock EXCEPT ![c] = "connected"]
          /\ events' = [events EXCEPT
                           ![c] = Append(@, request_success("connect", 0))]
          /\ s_sock' = IF kind[c] = "rawserver"
                       THEN [s_sock EXCEPT ![c] = "open"]
                       ELSE s_sock
       \/ /\ events' = [events EXCEPT
                           ![c] = Append(@, request_failure("connect",
                                                            "ConnectionError"))]
          /\ UNCHANGED <<c_sock, s_sock>>
    /\ c_pc' = [c_pc EXCEPT ![c] = "wait"]
    /\ UNCHANGED <<frameVars, cycles, s_got>>
    /\ UNCHANGED <<kind, c_data, c_length, c_exc, running, tasks, s_pc, s_data,
                   s_length, s_exc, c2s, s2c, wire, broken, rawWritten>>

\* UserBehavior.on_start calling TcpSocketLocust.connect: the connect succeeds
\* (success event, return True) or fails (failure event, raise e).
on_start(c) ==
    /\ IsLocust(c)
    /\ c_pc[c] = "start"
    /\ \/ /\ c_sock' = [c_sock EXCEPT ![c] = "connected"]
          /\ events' = [events EXCEPT
                           ![c] = Append(@, request_success("connect", 0))]
          /\ c_pc' = [c_pc EXCEPT ![c] = "wait"]
          /\ c_exc' = c_exc
          /\ s_sock' = IF kind[c] = "rawserver"
                       THEN [s_sock EXCEPT ![c] = "open"]
                       ELSE s_sock
       \/ /\ events' = [events EXCEPT
                           ![c] = Append(@, request_failure("connect",
                                                            "ConnectionError"))]
          /\ c_exc' = [c_exc EXCEPT ![c] = "ConnectionError"]
          /\ c_pc' = [c_pc EXCEPT ![c] = "on_start_except"]
          /\ UNCHANGED <<c_sock, s_sock>>
    /\ UNCHANGED <<frameVars, cycles, s_got>>
    /\ UNCHANGED <<kind, c_data, c_length, running, tasks, s_pc, s_data,
                   s_length, s_exc, c2s, s2c, wire, broken, rawWritten>>

\* Mutant of on_start_except: except Exception: pass
on_start_except_pass(c) ==
    /\ IsLocust(c)
    /\ c_pc[c] = "on_start_except"
    /\ c_exc' = [c_exc EXCEPT ![c] = "none"]
    /\ c_pc' = [c_pc EXCEPT ![c] = "wait"]
    /\ UNCHANGED <<frameVars, cycles, s_got>>
    /\ UNCHANGED <<kind, c_sock, c_data, c_length, running, events, tasks,
                   serverVars, c2s, s2c, wire, broken, rawWritten>>

\* UserBehavior.on_start's except clause: self.running = False.
on_start_except(c) ==
    /\ IsLocust(c)
    /\ c_pc[c] = "on_start_except"
    /\ running' = [running EXCEPT ![c] = FALSE]
    /\ c_exc' = [c_exc EXCEPT ![c] = "none"]
    /\ c_pc' = [c_pc EXCEPT ![c] = "wait"]
    /\ UNCHANGED <<frameVars, cycles, s_got>>
    /\ UNCHANGED <<kind, c_sock, c_data, c_length, events, tasks, serverVars,
                   c2s, s2c, wire, broken, rawWritten>>

\* A write of the client's socket.
ClientSend(c, data, okPc) ==
    \E r \in sendall(data, broken[c] \/ c_sock[c] # "connected",
                     PeerOfClientClosed(c)) :
        /\ c2s' = [c2s EXCEPT ![c] = @ \o r.sent]
        /\ wire' = [wire EXCEPT ![c] = Written(@, "client", r.sent)]
        /\ c_exc' = [c_exc EXCEPT ![c] = r.exc]
        /\ c_pc' = [c_pc EXCEPT
                       ![c] = IF r.exc = "none" THEN okPc ELSE "except_fire"]

\* Mutant of IsRunning: the task does not look at the flag.
IsRunning_always(c) == TRUE

\* if self.running:
IsRunning(c) == running[c]

\* The task UserBehavior.ping_pong invoked on a running client: it calls
\* TcpSocketLocust.ping_pong, which sends the header of "Ping".
ping_pong_task(c) ==
    /\ IsLocust(c)
    /\ c_pc[c] = "wait"
    /\ tasks[c] < MaxTasks
    /\ IsRunning(c)
    /\ tasks' = [tasks EXCEPT ![c] = @ + 1]
    /\ cycles' = [cycles EXCEPT ![c] = @ + 1]
    /\ ClientSend(c, to_bytes(Len(Ping)), "send_payload")
    /\ UNCHANGED <<frameVars, s_got>>
    /\ UNCHANGED <<kind, c_sock, c_data, c_length, running, events, serverVars,
                   s2c, broken, rawWritten>>

\* The task invoked on a client whose running flag is off: nothing happens.
ping_pong_task_stopped(c) ==
    /\ IsLocust(c)
    /\ c_pc[c] = "wait"
    /\ tasks[c] < MaxTasks
    /\ ~IsRunning(c)
    /\ tasks' = [tasks EXCEPT ![c] = @ + 1]
    /\ UNCHANGED <<frameVars, cycles, s_got>>
    /\ UNCHANGED <<kind, c_pc, c_sock, c_data, c_length, c_exc, running, events,
                   serverVars, c2s, s2c, wire, broken, rawWritten>>

\* self.socket.sendall(msg.encode()), then read_bytes(4) begins.
ping_pong_send_payload(c) ==
    /\ IsLocust(c)
    /\ c_pc[c] = "send_payload"
    /\ ClientSend(c, encode(Ping), "read_header")
    /\ c_data' = [c_data EXCEPT ![c] = <<>>]
    /\ c_length' = [c_length EXCEPT ![c] = 4]
    /\ UNCHANGED <<frameVars, cycles, s_got>>
    /\ UNCHANGED <<kind, c_sock, running, events, tasks, serverVars, s2c,
                   broken, rawWritten, cycles, s_got>>

\* One recv of read_bytes in TcpSocketLocust.ping_pong: for the header, then
\* for the payload of the length the header gives.
ping_pong_read(c) ==
    /\ IsLocust(c)
    /\ c_pc[c] \in {"read_header", "read_payload"}
    /\ IF broken[c] \/ c_sock[c] # "connected"
       THEN /\ c_exc' = [c_exc EXCEPT ![c] = "OSError"]
            /\ c_pc' = [c_pc EXCEPT ![c] = "except_fire"]
            /\ UNCHANGED <<c_data, c_length, s2c>>
       ELSE \E r \in Locust_read_bytes(c_data[c], c_length[c], s2c[c],
                                       PeerOfClientClosed(c)) :
              /\ s2c' = [s2c EXCEPT ![c] = r.rest]
              /\ c_exc' = [c_exc EXCEPT ![c] = r.exc]
              /\ IF r.exc # "none"
                 THEN /\ c_pc' = [c_pc EXCEPT ![c] = "except_fire"]
                      /\ UNCHANGED <<c_data, c_length>>
                 ELSE IF Len(r.data) < c_length[c]
                 THEN /\ c_data' = [c_data EXCEPT ![c] = r.data]
                      /\ UNCHANGED <<c_pc, c_length>>
                 ELSE IF c_pc[c] = "read_header"
                 THEN LET length == from_bytes(r.data)
                      IN /\ c_length' = [c_length EXCEPT ![c] = length]
                         /\ c_data' = [c_data EXCEPT ![c] = <<>>]
                         /\ c_pc' = [c_pc EXCEPT
                                        ![c] = IF length = 0 THEN "decode"
                                               ELSE "read_payload"]
                 ELSE /\ c_data' = [c_data EXCEPT ![c] = r.data]
                      /\ c_pc' = [c_pc EXCEPT ![c] = "decode"]
                      /\ UNCHANGED c_length
    /\ UNCHANGED <<frameVars, cycles, s_got>>
    /\ UNCHANGED <<kind, c_sock, running, events, tasks, serverVars, c2s, wire,
                   broken, rawWritten, cycles, s_got>>

\* Mutant of IsNotPong: the comparison of the server, != "Ping".
IsNotPong_ping(text) == text # Ping

\* data.decode("utf-8") != "Pong"
IsNotPong(text) == text # Pong

\* if data.decode("utf-8") != "Pong": raise, else the success event.
ping_pong_decode(c) ==
    /\ IsLocust(c)
    /\ c_pc[c] = "decode"
    /\ LET text == decode(c_data[c])
       IN IF text = DecodeError
          THEN /\ c_exc' = [c_exc EXCEPT ![c] = "UnicodeDecodeError"]
               /\ c_pc' = [c_pc EXCEPT ![c] = "except_fire"]
               /\ UNCHANGED events
          ELSE IF IsNotPong(text)
          THEN /\ c_exc' = [c_exc EXCEPT ![c] = "Unrecognized protocol."]
               /\ c_pc' = [c_pc EXCEPT ![c] = "except_fire"]
               /\ UNCHANGED events
          ELSE /\ events' = [events EXCEPT
                                ![c] = Append(@, request_success("ping-pong",
                                                              Len(c_data[c])))]
               /\ c_pc' = [c_pc EXCEPT ![c] = "wait"]
               /\ UNCHANGED c_exc
    /\ UNCHANGED <<frameVars, cycles, s_got>>
    /\ UNCHANGED <<kind, c_sock, c_data, c_length, running, tasks, serverVars,
                   c2s, s2c, wire, broken, rawWritten>>

\* Mutant of ping_pong_except_fire: the failure event is fired with
\* response_length=len(data) as the success event is.
ping_pong_except_fire_length(c) ==
    /\ IsLocust(c)
    /\ c_pc[c] = "except_fire"
    /\ events' = [events EXCEPT
                     ![c] = Append(@, [hook |-> "request_failure",
                                       request_type |-> "tcp",
                                       name |-> "ping-pong",
                                       exception |-> c_exc[c],
                                       response_length |-> Len(c_data[c])])]
    /\ c_pc' = [c_pc EXCEPT ![c] = "except_close"]
    /\ UNCHANGED <<frameVars, cycles, s_got>>
    /\ UNCHANGED <<kind, c_sock, c_data, c_length, c_exc, running, tasks,
                   serverVars, c2s, s2c, wire, broken, rawWritten>>

\* except Exception as e: events.request_failure.fire(...)
ping_pong_except_fire(c) ==
    /\ IsLocust(c)
    /\ c_pc[c] = "except_fire"
    /\ events' = [events EXCEPT
                     ![c] = Append(@, request_failure("ping-pong", c_exc[c]))]
    /\ c_pc' = [c_pc EXCEPT ![c] = "except_close"]
    /\ UNCHANGED <<frameVars, cycles, s_got>>
    /\ UNCHANGED <<kind, c_sock, c_data, c_length, c_exc, running, tasks,
                   serverVars, c2s, s2c, wire, broken, rawWritten>>

\* Mutant of ping_pong_except_close: the socket is not closed.
ping_pong_except_noclose(c) ==
    /\ IsLocust(c)
    /\ c_pc[c] = "except_close"
    /\ c_pc' = [c_pc EXCEPT ![c] = "except_raise"]
    /\ UNCHANGED <<frameVars, cycles, s_got>>
    /\ UNCHANGED <<kind, c_sock, c_data, c_length, c_exc, running, events,
                   tasks, serverVars, c2s, s2c, wire, broken, rawWritten>>

\* self.socket.close()
ping_pong_except_close(c) ==
    /\ IsLocust(c)
    /\ c_pc[c] = "except_close"
    /\ c_sock' = [c_sock EXCEPT ![c] = "closed"]
    /\ c_pc' = [c_pc EXCEPT ![c] = "except_raise"]
    /\ UNCHANGED <<frameVars, cycles, s_got>>
    /\ UNCHANGED <<kind, c_data, c_length, c_exc, running, events, tasks,
                   serverVars, c2s, s2c, wire, broken, rawWritten>>

\* Mutant of ping_pong_except_raise: the success event under finally:, not
\* else:, so it is fired on the way out of a failed cycle too.
ping_pong_except_raise_finally(c) ==
    /\ IsLocust(c)
    /\ c_pc[c] = "except_raise"
    /\ events' = [events EXCEPT
                     ![c] = Append(@, request_success("ping-pong",
                                                      Len(c_data[c])))]
    /\ running' = [running EXCEPT ![c] = FALSE]
    /\ c_exc' = [c_exc EXCEPT ![c] = "none"]
    /\ c_pc' = [c_pc EXCEPT ![c] = "wait"]
    /\ UNCHANGED <<frameVars, cycles, s_got>>
    /\ UNCHANGED <<kind, c_sock, c_data, c_length, tasks, serverVars,
                   c2s, s2c, wire, broken, rawWritten>>

\* Mutant of ping_pong_except_raise: the task's except clause is
\* except Exception: pass
ping_pong_except_raise_pass(c) ==
    /\ IsLocust(c)
    /\ c_pc[c] = "except_raise"
    /\ c_exc' = [c_exc EXCEPT ![c] = "none"]
    /\ c_pc' = [c_pc EXCEPT ![c] = "wait"]
    /\ UNCHANGED <<frameVars, cycles, s_got>>
    /\ UNCHANGED <<kind, c_sock, c_data, c_length, running, events, tasks,
                   serverVars, c2s, s2c, wire, broken, rawWritten>>

\* raise e, caught by the task UserBehavior.ping_pong: self.running = False.
ping_pong_except_raise(c) ==
    /\ IsLocust(c)
    /\ c_pc[c] = "except_raise"
    /\ running' = [running EXCEPT ![c] = FALSE]
    /\ c_exc' = [c_exc EXCEPT ![c] = "none"]
    /\ c_pc' = [c_pc EXCEPT ![c] = "wait"]
    /\ UNCHANGED <<frameVars, cycles, s_got>>
    /\ UNCHANGED <<kind, c_sock, c_data, c_length, events, tasks, serverVars,
                   c2s, s2c, wire, broken, rawWritten>>

\* ----------------------------------------------------------------- server
\* Mutant of accept: a TCPServer without ThreadingMixIn, which runs handle in
\* the accept loop and takes the next connection when handle has returned.
accept_unthreaded(c) ==
    /\ IsHandler(c)
    /\ s_pc[c] = "listen"
    /\ c_sock[c] # "new"
    /\ \A d \in Conns \ {c} : s_pc[d] \in {"listen", "closed"}
    /\ s_sock' = [s_sock EXCEPT ![c] = "open"]
    /\ s_pc' = [s_pc EXCEPT ![c] = "read_header"]
    /\ s_data' = [s_data EXCEPT ![c] = <<>>]
    /\ s_length' = [s_length EXCEPT ![c] = 4]
    /\ UNCHANGED <<frameVars, cycles, s_got>>
    /\ UNCHANGED <<kind, clientVars, s_exc, c2s, s2c, wire, broken, rawWritten>>

\* serve_forever of ThreadedTCPServer accepts a connection and starts a thread
\* that runs Handler.handle: its first read_bytes(4) begins.
accept(c) ==
    /\ IsHandler(c)
    /\ s_pc[c] = "listen"
    /\ c_sock[c] # "new"
    /\ s_sock' = [s_sock EXCEPT ![c] = "open"]
    /\ s_pc' = [s_pc EXCEPT ![c] = "read_header"]
    /\ s_data' = [s_data EXCEPT ![c] = <<>>]
    /\ s_length' = [s_length EXCEPT ![c] = 4]
    /\ UNCHANGED <<frameVars, cycles, s_got>>
    /\ UNCHANGED <<kind, clientVars, s_exc, c2s, s2c, wire, broken, rawWritten>>

\* Mutant of HandlerRaise: except Exception as e: print(e), without the
\* break, so the loop goes on with the next read_bytes(4).
HandlerRaise_nobreak(c, e) ==
    /\ s_exc' = [s_exc EXCEPT ![c] = e]
    /\ s_pc' = [s_pc EXCEPT ![c] = "read_header"]

\* except Exception as e: print(e); break
HandlerRaise(c, e) ==
    /\ s_exc' = [s_exc EXCEPT ![c] = e]
    /\ s_pc' = [s_pc EXCEPT ![c] = "terminated"]

\* A write of the handler's socket.
ServerSend(c, data, okPc) ==
    \E r \in sendall(data, broken[c], PeerOfServerClosed(c)) :
        /\ s2c' = [s2c EXCEPT ![c] = @ \o r.sent]
        /\ wire' = [wire EXCEPT ![c] = Written(@, "server", r.sent)]
        /\ IF r.exc = "none"
           THEN /\ s_pc' = [s_pc EXCEPT ![c] = okPc]
                /\ UNCHANGED s_exc
           ELSE HandlerRaise(c, r.exc)

\* Mutant of handle_read: read_bytes receives before it tests the length
\* (a loop that tests len(data) >= length after the recv), so a payload of
\* length 0 costs a recv too.
handle_read_dowhile(c) ==
    /\ IsHandler(c)
    /\ s_pc[c] \in {"read_header", "read_payload"}
    /\ IF broken[c]
       THEN /\ HandlerRaise(c, "OSError")
            /\ UNCHANGED <<s_data, s_length, c2s, s_got>>
       ELSE \E r \in Handler_read_bytes(s_data[c], s_length[c], c2s[c],
                                        PeerOfServerClosed(c)) :
              /\ c2s' = [c2s EXCEPT ![c] = r.rest]
              /\ IF r.exc # "none"
                 THEN /\ HandlerRaise(c, r.exc)
                      /\ UNCHANGED <<s_data, s_length, s_got>>
                 ELSE IF Len(r.data) < s_length[c]
                 THEN /\ s_data' = [s_data EXCEPT ![c] = r.data]
                      /\ UNCHANGED <<s_pc, s_length, s_exc, s_got>>
                 ELSE IF s_pc[c] = "read_header"
                 THEN LET length == from_bytes(r.data)
                      IN /\ s_length' = [s_length EXCEPT ![c] = length]
                         /\ s_data' = [s_data EXCEPT ![c] = <<>>]
                         /\ s_pc' = [s_pc EXCEPT ![c] = "read_payload"]
                         /\ s_got' = s_got
                         /\ UNCHANGED s_exc
                 ELSE /\ s_data' = [s_data EXCEPT ![c] = r.data]
                      /\ s_pc' = [s_pc EXCEPT ![c] = "decode"]
                      /\ s_got' = [s_got EXCEPT ![c] = Append(@, r.data)]
                      /\ UNCHANGED <<s_length, s_exc>>
    /\ UNCHANGED <<frameVars, cycles>>
    /\ UNCHANGED <<kind, clientVars, s_sock, s2c, wire, broken, rawWritten>>

\* One recv of read_bytes in Handler.handle: for the header, then for the
\* payload of the length the header gives.
handle_read(c) ==
    /\ IsHandler(c)
    /\ s_pc[c] \in {"read_header", "read_payload"}
    /\ IF broken[c]
       THEN /\ HandlerRaise(c, "OSError")
            /\ UNCHANGED <<s_data, s_length, c2s, s_got>>
       ELSE \E r \in Handler_read_bytes(s_data[c], s_length[c], c2s[c],
                                        PeerOfServerClosed(c)) :
              /\ c2s' = [c2s EXCEPT ![c] = r.rest]
              /\ IF r.exc # "none"
                 THEN /\ HandlerRaise(c, r.exc)
                      /\ UNCHANGED <<s_data, s_length, s_got>>
                 ELSE IF Len(r.data) < s_length[c]
                 THEN /\ s_data' = [s_data EXCEPT ![c] = r.data]
                      /\ UNCHANGED <<s_pc, s_length, s_exc, s_got>>
                 ELSE IF s_pc[c] = "read_header"
                 THEN LET length == from_bytes(r.data)
                      IN /\ s_length' = [s_length EXCEPT ![c] = length]
                         /\ s_data' = [s_data EXCEPT ![c] = <<>>]
                         /\ s_pc' = [s_pc EXCEPT
                                        ![c] = IF length = 0 THEN "decode"
                                               ELSE "read_payload"]
                         /\ s_got' = IF length = 0
                                     THEN [s_got EXCEPT ![c] = Append(@, <<>>)]
                                     ELSE s_got
                         /\ UNCHANGED s_exc
                 ELSE /\ s_data' = [s_data EXCEPT ![c] = r.data]
                      /\ s_pc' = [s_pc EXCEPT ![c] = "decode"]
                      /\ s_got' = [s_got EXCEPT ![c] = Append(@, r.data)]
                      /\ UNCHANGED <<s_length, s_exc>>
    /\ UNCHANGED <<frameVars, cycles>>
    /\ UNCHANGED <<kind, clientVars, s_sock, s2c, wire, broken, rawWritten>>

\* Mutant of IsPing: data.decode("utf-8").startswith("Ping")
IsPing_startswith(text) == Len(text) >= 4 /\ SubSeq(text, 1, 4) = Ping

\* data.decode("utf-8") == "Ping"
IsPing(text) == text = Ping

\* if data.decode("utf-8") == "Ping": sendall(len(res).to_bytes(4, 'little'))
\* else: raise Exception("Unrecognized protocol.")
handle_decode(c) ==
    /\ IsHandler(c)
    /\ s_pc[c] = "decode"
    /\ LET text == decode(s_data[c])
       IN IF text = DecodeError
          THEN /\ HandlerRaise(c, "UnicodeDecodeError")
               /\ UNCHANGED <<s2c, wire>>
          ELSE IF IsPing(text)
          THEN ServerSend(c, to_bytes(Len(Pong)), "send_payload")
          ELSE /\ HandlerRaise(c, "Unrecognized protocol.")
               /\ UNCHANGED <<s2c, wire>>
    /\ UNCHANGED <<frameVars, cycles, s_got>>
    /\ UNCHANGED <<kind, clientVars, s_sock, s_data, s_length, c2s, broken,
                   rawWritten>>

\* Mutant of handle_send_payload: the request is read before the loop, not in
\* it, so the worker answers the same request again.
handle_send_payload_reanswer(c) ==
    /\ IsHandler(c)
    /\ s_pc[c] = "send_payload"
    /\ ServerSend(c, encode(Pong), "decode")
    /\ UNCHANGED <<frameVars, cycles, s_got>>
    /\ UNCHANGED <<kind, clientVars, s_sock, s_data, s_length, c2s, broken,
                   rawWritten>>

\* self.request.sendall(res.encode("utf-8")), then the loop's next
\* read_bytes(4) begins.
handle_send_payload(c) ==
    /\ IsHandler(c)
    /\ s_pc[c] = "send_payload"
    /\ ServerSend(c, encode(Pong), "read_header")
    /\ s_data' = [s_data EXCEPT ![c] = <<>>]
    /\ s_length' = [s_length EXCEPT ![c] = 4]
    /\ UNCHANGED <<frameVars, cycles, s_got>>
    /\ UNCHANGED <<kind, clientVars, s_sock, c2s, broken, rawWritten>>

\* handle returned: the server's thread closes the request and ends.
shutdown_request(c) ==
    /\ IsHandler(c)
    /\ s_pc[c] = "terminated"
    /\ s_sock' = [s_sock EXCEPT ![c] = "closed"]
    /\ s_pc' = [s_pc EXCEPT ![c] = "closed"]
    /\ UNCHANGED <<frameVars, cycles, s_got>>
    /\ UNCHANGED <<kind, clientVars, s_data, s_length, s_exc, c2s, s2c, wire,
                   broken, rawWritten, cycles, s_got>>

\* ------------------------------------------------------------ environment
\* What a client that is not this program may write: whole frames, a header
\* cut short, a payload cut short, two frames at once.
RawRequests ==
    { to_bytes(Len(p)) \o p : p \in {Ping, Pingx, <<>>, <<255>>} }
    \cup { <<4, 0>>, <<4, 0, 0, 0, 80>>,
           to_bytes(Len(Pingx)) \o Pingx \o to_bytes(Len(Ping)) \o Ping }

\* What a server that is not this program may answer.
RawReplies ==
    { to_bytes(Len(p)) \o p : p \in {Pong, Ping, <<>>, <<255>>} }
    \cup { <<4, 0, 0, 0, 80>>,
           to_bytes(Len(Pong)) \o Pong \o to_bytes(Len(Ping)) \o Ping }

\* Another client connects to the server.
RawConnect(c) ==
    /\ kind[c] = "rawclient"
    /\ c_sock[c] = "new"
    /\ c_sock' = [c_sock EXCEPT ![c] = "connected"]
    /\ UNCHANGED <<frameVars, cycles, s_got>>
    /\ UNCHANGED <<kind, c_pc, c_data, c_length, c_exc, running, events, tasks,
                   serverVars, c2s, s2c, wire, broken, rawWritten>>

\* The other peer writes its bytes, once: a client whenever it likes, a
\* server once the simulated client waits for its reply.
RawWrite(c) ==
    /\ ~rawWritten[c]
    /\ ~broken[c]
    /\ rawWritten' = [rawWritten EXCEPT ![c] = TRUE]
    /\ \/ /\ kind[c] = "rawclient"
          /\ c_sock[c] = "connected"
          /\ \E m \in RawRequests :
                /\ c2s' = [c2s EXCEPT ![c] = @ \o m]
                /\ wire' = [wire EXCEPT ![c] = Written(@, "client", m)]
          /\ s2c' = s2c
       \/ /\ kind[c] = "rawserver"
          /\ s_sock[c] = "open"
          /\ c_pc[c] \in {"read_header", "read_payload"}
          /\ \E m \in RawReplies :
                /\ s2c' = [s2c EXCEPT ![c] = @ \o m]
                /\ wire' = [wire EXCEPT ![c] = Written(@, "server", m)]
          /\ c2s' = c2s
    /\ UNCHANGED <<frameVars, cycles, s_got>>
    /\ UNCHANGED <<kind, clientVars, serverVars, broken>>

\* The other peer closes its end.
RawClose(c) ==
    /\ \/ /\ kind[c] = "rawclient"
          /\ c_sock[c] = "connected"
          /\ c_sock' = [c_sock EXCEPT ![c] = "closed"]
          /\ s_sock' = s_sock
       \/ /\ kind[c] = "rawserver"
          /\ s_sock[c] = "open"
          /\ s_sock' = [s_sock EXCEPT ![c] = "closed"]
          /\ c_sock' = c_sock
    /\ UNCHANGED <<frameVars, cycles, s_got>>
    /\ UNCHANGED <<kind, c_pc, c_data, c_length, c_exc, running, events, tasks,
                   s_pc, s_data, s_length, s_exc, c2s, s2c, wire, broken,
                   rawWritten>>

\* The network resets an established connection: every later recv and
\* sendall on it raises.
NetFail(c) ==
    /\ c \in Disturbed
    /\ ~broken[c]
    /\ c_sock[c] = "connected"
    /\ broken' = [broken EXCEPT ![c] = TRUE]
    /\ UNCHANGED <<frameVars, cycles, s_got>>
    /\ UNCHANGED <<kind, clientVars, serverVars, c2s, s2c, wire, rawWritten>>

\* ------------------------------------------------------------------- spec
Step(c) ==
    \/ on_start(c)
    \/ on_start_except(c)
    \/ ping_pong_task(c)
    \/ ping_pong_task_stopped(c)
    \/ ping_pong_send_payload(c)
    \/ ping_pong_read(c)
    \/ ping_pong_decode(c)
    \/ ping_pong_except_fire(c)
    \/ ping_pong_except_close(c)
    \/ ping_pong_except_raise(c)
    \/ accept(c)
    \/ handle_read(c)
    \/ handle_decode(c)
    \/ handle_send_payload(c)
    \/ shutdown_request(c)
    \/ RawConnect(c)
    \/ RawWrite(c)
    \/ RawClose(c)
    \/ NetFail(c)

\* No header conversion is set up.
NoHeader ==
    /\ hd_pc = "none"
    /\ hd_from = "none"
    /\ hd_in = 0
    /\ hd_length = 0
    /\ hd_header = <<>>

\* No frame exchange is set up.
NoFrame ==
    /\ fr_side = "none"
    /\ fr_payload = <<>>
    /\ fr_next = <<>>
    /\ fr_wpc = "none"
    /\ fr_sent = <<>>
    /\ fr_stream = <<>>
    /\ fr_eof = FALSE
    /\ fr_pc = "none"
    /\ fr_data = <<>>
    /\ fr_length = 0
    /\ fr_exc = "none"
    /\ fr_recvs = 0

Init == InitConns /\ NoFrame /\ NoHeader

Next == \E c \in Conns : Step(c)

Spec == Init /\ [][Next]_vars

\* --------------------------------------------------------- frame exchange
\* One frame written by one side with the program's two sendall calls (the
\* length header, then the payload) and read by the other side's read_bytes
\* calls, for every payload up to MaxLen bytes, every way the stream cuts the
\* bytes into chunks and every point at which the writer's end closes.
FrameBytes == {0, 80, 255}

RECURSIVE SeqsUpTo(_)
SeqsUpTo(n) ==
    IF n = 0 THEN {<<>>}
    ELSE LET shorter == SeqsUpTo(n - 1)
         IN shorter \cup {Append(q, b) : q \in shorter, b \in FrameBytes}

InitFrame ==
    /\ kind = [c \in Conns |-> "both"]
    /\ c_pc = [c \in Conns |-> "start"]
    /\ c_sock = [c \in Conns |-> "new"]
    /\ c_data = [c \in Conns |-> <<>>]
    /\ c_length = [c \in Conns |-> 0]
    /\ c_exc = [c \in Conns |-> "none"]
    /\ running = [c \in Conns |-> TRUE]
    /\ events = [c \in Conns |-> <<>>]
    /\ tasks = [c \in Conns |-> 0]
    /\ s_pc = [c \in Conns |-> "listen"]
    /\ s_sock = [c \in Conns |-> "none"]
    /\ s_data = [c \in Conns |-> <<>>]
    /\ s_length = [c \in Conns |-> 0]
    /\ s_exc = [c \in Conns |-> "none"]
    /\ c2s = [c \in Conns |-> <<>>]
    /\ s2c = [c \in Conns |-> <<>>]
    /\ wire = [c \in Conns |-> <<>>]
    /\ broken = [c \in Conns |-> FALSE]
    /\ rawWritten = [c \in Conns |-> FALSE]
    /\ cycles = [c \in Conns |-> 0]
    /\ s_got = [c \in Conns |-> <<>>]
    /\ fr_side \in {"server", "client"}
    /\ fr_payload \in SeqsUpTo(MaxLen)
    /\ fr_next \in {<<>>, <<1, 0, 0, 0, 80>>}
    /\ fr_wpc = "send_header"
    /\ fr_sent = <<>>
    /\ fr_stream = <<>>
    /\ fr_eof = FALSE
    /\ fr_pc = "read_header"
    /\ fr_data = <<>>
    /\ fr_length = 4
    /\ fr_exc = "none"
    /\ fr_recvs = 0
    /\ NoHeader

\* sendall(len(msg).to_bytes(4, 'little'))
FrameSendHeader ==
    /\ fr_wpc = "send_header"
    /\ ~fr_eof
    /\ fr_sent' = fr_sent \o to_bytes(Len(fr_payload))
    /\ fr_stream' = fr_stream \o to_bytes(Len(fr_payload))
    /\ fr_wpc' = "send_payload"
    /\ UNCHANGED <<fr_side, fr_payload, fr_next, fr_eof, fr_pc, fr_data,
                   fr_length, fr_exc, fr_recvs>>
    /\ UNCHANGED <<connVars, headerVars>>

\* sendall(msg.encode())
FrameSendPayload ==
    /\ fr_wpc = "send_payload"
    /\ ~fr_eof
    /\ fr_sent' = fr_sent \o encode(fr_payload)
    /\ fr_stream' = fr_stream \o encode(fr_payload)
    /\ fr_wpc' = "send_next"
    /\ UNCHANGED <<fr_side, fr_payload, fr_next, fr_eof, fr_pc, fr_data,
                   fr_length, fr_exc, fr_recvs>>
    /\ UNCHANGED <<connVars, headerVars>>

\* The writer goes on with what follows the frame.
FrameSendNext ==
    /\ fr_wpc = "send_next"
    /\ ~fr_eof
    /\ fr_next # <<>>
    /\ fr_sent' = fr_sent \o fr_next
    /\ fr_stream' = fr_stream \o fr_next
    /\ fr_wpc' = "done"
    /\ UNCHANGED <<fr_side, fr_payload, fr_next, fr_eof, fr_pc, fr_data,
                   fr_length, fr_exc, fr_recvs>>
    /\ UNCHANGED <<connVars, headerVars>>

\* The writer's end goes down in the middle of a sendall: a part of the header
\* or of the payload is on the stream and nothing follows.
FrameSendCut ==
    /\ fr_wpc \in {"send_header", "send_payload"}
    /\ ~fr_eof
    /\ LET part == IF fr_wpc = "send_header"
                   THEN to_bytes(Len(fr_payload))
                   ELSE encode(fr_payload)
       IN \E k \in 1..(Len(part) - 1) :
             /\ fr_sent' = fr_sent \o SubSeq(part, 1, k)
             /\ fr_stream' = fr_stream \o SubSeq(part, 1, k)
    /\ fr_eof' = TRUE
    /\ UNCHANGED <<fr_side, fr_payload, fr_next, fr_wpc, fr_pc, fr_data,
                   fr_length, fr_exc, fr_recvs>>
    /\ UNCHANGED <<connVars, headerVars>>

\* The writer's end closes, wherever the writer is.
FrameClose ==
    /\ fr_wpc # "none"
    /\ ~fr_eof
    /\ fr_eof' = TRUE
    /\ UNCHANGED <<fr_side, fr_payload, fr_next, fr_wpc, fr_sent, fr_stream,
                   fr_pc, fr_data, fr_length, fr_exc, fr_recvs>>
    /\ UNCHANGED <<connVars, headerVars>>

\* One recv of the reader's read_bytes: header = read_bytes(4), length =
\* int.from_bytes(header, 'little'), data = read_bytes(length).
FrameRecv ==
    /\ fr_pc \in {"read_header", "read_payload"}
    /\ \E r \in IF fr_side = "server"
                 THEN Handler_read_bytes(fr_data, fr_length, fr_stream, fr_eof)
                 ELSE Locust_read_bytes(fr_data, fr_length, fr_stream, fr_eof) :
         /\ fr_stream' = r.rest
         /\ fr_exc' = r.exc
         /\ fr_recvs' = fr_recvs + 1
         /\ IF r.exc # "none"
            THEN /\ fr_pc' = "raised"
                 /\ UNCHANGED <<fr_data, fr_length>>
            ELSE IF Len(r.data) < fr_length
            THEN /\ fr_data' = r.data
                 /\ UNCHANGED <<fr_pc, fr_length>>
            ELSE IF fr_pc = "read_header"
            THEN LET length == from_bytes(r.data)
                 IN /\ fr_length' = length
                    /\ fr_data' = <<>>
                    /\ fr_pc' = IF length = 0 THEN "returned"
                                ELSE "read_payload"
            ELSE /\ fr_data' = r.data
                 /\ fr_pc' = "returned"
                 /\ UNCHANGED fr_length
    /\ UNCHANGED <<fr_side, fr_payload, fr_next, fr_wpc, fr_sent, fr_eof>>
    /\ UNCHANGED <<connVars, headerVars>>

NextFrame ==
    \/ FrameSendHeader
    \/ FrameSendPayload
    \/ FrameSendNext
    \/ FrameSendCut
    \/ FrameClose
    \/ FrameRecv

SpecFrame == InitFrame /\ [][NextFrame]_vars

\* ============================================================= properties
\* What one side has put on the stream of a connection, in order.
RECURSIVE BytesOf(_, _)
BytesOf(log, side) ==
    IF log = <<>> THEN <<>>
    ELSE (IF log[1][1] = side THEN log[1][2] ELSE <<>>)
         \o BytesOf(Tail(log), side)

ServerBytes(c) == BytesOf(wire[c], "server")
ClientBytes(c) == BytesOf(wire[c], "client")

\* The two frames of the protocol, byte for byte.
PingFrame == <<4, 0, 0, 0, 80, 105, 110, 103>>
PongFrame == <<4, 0, 0, 0, 80, 111, 110, 103>>

RECURSIVE Repeat(_, _)
Repeat(f, n) == IF n <= 0 THEN <<>> ELSE f \o Repeat(f, n - 1)

Count(q, x) == Cardinality({i \in 1..Len(q) : q[i] = x})

IsProperPrefix(p, q) == Len(p) < Len(q) /\ p = SubSeq(q, 1, Len(p))

HandlerConns == {c \in Conns : IsHandler(c)}
LocustConns == {c \in Conns : IsLocust(c)}

\* A Ping the worker has read and not finished answering.
Answering(c) ==
    s_pc[c] \in {"decode", "send_payload"}
    /\ s_got[c] # <<>> /\ s_got[c][Len(s_got[c])] = Ping

\* The worker's write of a reply failed.
ReplyFailed(c) ==
    /\ s_pc[c] \in {"terminated", "closed"}
    /\ s_exc[c] = "OSError"
    /\ s_got[c] # <<>> /\ s_got[c][Len(s_got[c])] = Ping

\* C1 as stated: every "Ping" the worker has read is answered by exactly one
\* whole "Pong" frame and every other payload ends the connection with nothing
\* written, so outside the answering of a Ping the worker's output is one Pong
\* frame per Ping read.
C1_EveryPingAnswered ==
    \A c \in HandlerConns :
        ~Answering(c) => ServerBytes(c) = Repeat(PongFrame, Count(s_got[c], Ping))

\* C1, amended: the worker's output is one whole Pong frame per Ping read,
\* except that the reply to the last Ping is missing while it is not yet
\* decoded, is its header alone between the two writes, and is any proper
\* part of the frame (nothing included) when one of the two writes failed,
\* which terminates the worker.  A payload other than "Ping" is the last one
\* read: the worker terminates on it ("Unrecognized protocol." or the decode
\* error) and writes nothing.  While the worker awaits a request every payload
\* read so far was a Ping and was answered in full.
C1_ServerConformance ==
    \A c \in HandlerConns :
        LET got == s_got[c]
            pings == Count(got, Ping)
            out == ServerBytes(c)
            last == got[Len(got)]
        IN /\ \A i \in 1..(Len(got) - 1) : got[i] = Ping
           /\ s_pc[c] \in {"listen", "read_header", "read_payload"} =>
                 /\ pings = Len(got)
                 /\ out = Repeat(PongFrame, pings)
           /\ s_pc[c] = "decode" =>
                 out = Repeat(PongFrame, Len(got) - 1)
           /\ s_pc[c] = "send_payload" =>
                 /\ last = Ping
                 /\ out = Repeat(PongFrame, pings - 1) \o <<4, 0, 0, 0>>
           /\ s_pc[c] \in {"terminated", "closed"} =>
                 \/ out = Repeat(PongFrame, pings)
                 \/ /\ ReplyFailed(c)
                    /\ \E part \in {SubSeq(PongFrame, 1, k) : k \in 0..7} :
                          out = Repeat(PongFrame, pings - 1) \o part
           /\ (got # <<>> /\ last # Ping /\ s_pc[c] # "decode") =>
                 /\ s_pc[c] \in {"terminated", "closed"}
                 /\ s_exc[c] \in {"Unrecognized protocol.", "UnicodeDecodeError"}
                 /\ out = Repeat(PongFrame, pings)

\* C1 witness: a worker answered a Ping and awaits the next request, and a
\* worker terminated on "Pingx" having written nothing.
C1_Witness ==
    /\ kind[1] = "rawclient"
    /\ s_got[1] = <<Pingx>>
    /\ s_pc[1] = "closed"
    /\ s_exc[1] = "Unrecognized protocol."
    /\ ServerBytes(1) = <<>>
    /\ s_pc[2] = "read_header"
    /\ s_got[2] = <<Ping>>
    /\ ServerBytes(2) = PongFrame

\* The length a 4-byte header declares.
LE4(h) == h[1] + 256 * h[2] + 65536 * h[3] + 16777216 * h[4]

HasFrame(b) == Len(b) >= 4 /\ Len(b) >= 4 + LE4(b)

\* The payloads of the whole frames at the head of a byte string, and the
\* bytes left after them.
RECURSIVE PayloadsIn(_)
PayloadsIn(b) ==
    IF HasFrame(b)
    THEN <<SubSeq(b, 5, 4 + LE4(b))>> \o PayloadsIn(SubSeq(b, 5 + LE4(b), Len(b)))
    ELSE <<>>

RECURSIVE AfterFrames(_)
AfterFrames(b) ==
    IF HasFrame(b) THEN AfterFrames(SubSeq(b, 5 + LE4(b), Len(b))) ELSE b

Tagged(side, payloads) == [i \in 1..Len(payloads) |-> <<side, payloads[i]>>]

\* The whole frames of a connection in the order in which their last byte
\* was written: pc and ps are the bytes of the client and of the server that
\* do not yet make a frame.
RECURSIVE FramesOf(_, _, _)
FramesOf(log, pc, ps) ==
    IF log = <<>> THEN <<>>
    ELSE IF log[1][1] = "client"
    THEN Tagged("client", PayloadsIn(pc \o log[1][2]))
         \o FramesOf(Tail(log), AfterFrames(pc \o log[1][2]), ps)
    ELSE Tagged("server", PayloadsIn(ps \o log[1][2]))
         \o FramesOf(Tail(log), pc, AfterFrames(ps \o log[1][2]))

FramesOnWire(c) == FramesOf(wire[c], <<>>, <<>>)

\* The cycles of a simulated client that ended in a success event.
Successes(c) ==
    Cardinality({i \in 1..Len(events[c]) :
                    /\ events[c][i].name = "ping-pong"
                    /\ events[c][i].hook = "request_success"})

\* C2: on a connection between the simulated client and the server the whole
\* frames on the wire are Ping, Pong, Ping, Pong, ...; with N successful
\* cycles there are 2N frames while the client is between cycles, and at most
\* the Ping and the Pong of the next cycle more; the client has written no
\* byte of a further Ping before its last one was answered and read.  On
\* every connection of the server each frame the server has sent is a Pong
\* and, at each point, the server has sent no more frames than Pings had
\* crossed before.
C2_Alternation ==
    /\ \A c \in Conns : kind[c] = "both" =>
          LET f == FramesOnWire(c)
              n == Successes(c)
          IN /\ \A i \in 1..Len(f) :
                   f[i] = IF i % 2 = 1 THEN <<"client", Ping>>
                          ELSE <<"server", Pong>>
             /\ Len(f) >= 2 * n
             /\ Len(f) <= 2 * n + 2
             /\ (c_pc[c] = "wait" /\ running[c]) =>
                   /\ Len(f) = 2 * n
                   /\ n = cycles[c]
             /\ IsProperPrefix(ClientBytes(c), Repeat(PingFrame, n + 1))
                \/ ClientBytes(c) = Repeat(PingFrame, n + 1)
             /\ c_pc[c] = "send_payload" =>
                   /\ Len(f) = 2 * n
                   /\ ClientBytes(c) = Repeat(PingFrame, n) \o <<4, 0, 0, 0>>
    /\ \A c \in HandlerConns :
          LET f == FramesOnWire(c)
          IN \A i \in 1..Len(f) :
                f[i][1] = "server" =>
                   /\ f[i][2] = Pong
                   /\ Cardinality({j \in 1..i : f[j][1] = "server"})
                         <= Cardinality({j \in 1..i : f[j] = <<"client", Ping>>})

\* C2 witness: two successful cycles and four frames on one connection, while
\* the other connection is in the middle of a cycle.
C2_Witness ==
    /\ kind[1] = "both"
    /\ Successes(1) = 2
    /\ FramesOnWire(1) = << <<"client", Ping>>, <<"server", Pong>>,
                            <<"client", Ping>>, <<"server", Pong>> >>
    /\ Len(FramesOnWire(2)) = 1
    /\ c_pc[2] = "read_header"

\* ------------------------------------------------ frame exchange properties
\* Bytes the frame read has taken from the stream.
FrameConsumed == Len(fr_sent) - Len(fr_stream)

\* The frame as it must appear on the stream: the payload's length in four
\* bytes, least significant first, then the payload.
WholeFrame ==
    <<Len(fr_payload) % 256, (Len(fr_payload) \div 256) % 256,
      (Len(fr_payload) \div 65536) % 256, Len(fr_payload) \div 16777216>>
    \o fr_payload

\* C3: when one side has written the frame of payload P and the peer's frame
\* read returns, it returns exactly P and has taken exactly the 4 + Len(P)
\* bytes of the frame, so the stream holds what was sent after the frame;
\* the length the reader decodes from the header is Len(P).
C3_FrameRoundTrip ==
    /\ fr_pc \in {"read_payload", "returned"} => fr_length = Len(fr_payload)
    /\ fr_pc = "returned" =>
          /\ fr_data = fr_payload
          /\ SubSeq(fr_sent, 1, 4 + Len(fr_payload)) = WholeFrame
          /\ FrameConsumed = 4 + Len(fr_payload)
          /\ fr_stream = SubSeq(fr_sent, 5 + Len(fr_payload), Len(fr_sent))

\* C3 witness: a payload of the longest length was returned and the bytes sent
\* after the frame are still on the stream.
C3_Witness ==
    /\ fr_pc = "returned"
    /\ Len(fr_payload) = MaxLen
    /\ fr_data = fr_payload
    /\ fr_next # <<>>
    /\ fr_stream = fr_next

\* C4: however the stream cuts the frame into chunks, the frame read never
\* holds more bytes than the length it reads for, never takes a byte beyond
\* the part of the frame it is reading (so none of what follows the frame),
\* and what it returns has exactly the declared number of bytes and is the
\* payload written, whatever the number of recv calls it took.
C4_PartialReads ==
    /\ Len(fr_data) <= fr_length
    /\ FrameConsumed <= 4 + Len(fr_payload)
    /\ fr_pc = "read_header" => FrameConsumed = Len(fr_data)
    /\ fr_pc = "read_payload" => FrameConsumed = 4 + Len(fr_data)
    /\ fr_pc = "returned" =>
          /\ Len(fr_data) = fr_length
          /\ fr_data = fr_payload
          /\ FrameConsumed = 4 + fr_length
          /\ fr_recvs >= 1
          /\ fr_recvs <= 4 + fr_length

\* C4 witness: the frame arrived one byte per recv, the payload of the longest
\* length was returned whole, and the bytes after the frame are untouched.
C4_Witness ==
    /\ fr_pc = "returned"
    /\ Len(fr_payload) = MaxLen
    /\ fr_recvs = 4 + MaxLen
    /\ fr_data = fr_payload
    /\ fr_next # <<>>
    /\ fr_stream = fr_next

\* C5: a frame read that meets end-of-stream with bytes still missing (fewer
\* than 4 header bytes, or fewer payload bytes than the header declares) raises
\* "Error reading bytes." at that recv and returns nothing; a frame read that
\* returns has all the bytes the header declares, never fewer and never more.
C5_EndOfStream ==
    /\ [](/\ fr_pc = "raised" =>
                /\ fr_exc = "Error reading bytes."
                /\ fr_eof
                /\ fr_stream = <<>>
                /\ Len(fr_data) < fr_length
                /\ Len(fr_sent) < 4 + Len(fr_payload)
          /\ fr_pc = "returned" =>
                /\ fr_exc = "none"
                /\ Len(fr_data) = fr_length
                /\ fr_data = fr_payload
                /\ Len(fr_sent) >= 4 + Len(fr_payload))
    /\ [][(/\ fr_pc \in {"read_header", "read_payload"}
           /\ fr_eof
           /\ fr_stream = <<>>)
          => (fr_pc' = "raised" /\ fr_exc' = "Error reading bytes.")]_vars

\* C5 witness: the stream ended after the whole header and a part of the
\* payload, and the frame read raised.
C5_Witness ==
    /\ fr_pc = "raised"
    /\ fr_length = MaxLen
    /\ Len(fr_data) = MaxLen - 1
    /\ FrameConsumed = 4 + MaxLen - 1
    /\ fr_exc = "Error reading bytes."

\* ----------------------------------------------------------- isolation
\* Everything that belongs to one connection: its client, its worker and its
\* two byte streams.
ConnState(c) ==
    <<kind[c], c_pc[c], c_sock[c], c_data[c], c_length[c], c_exc[c],
      running[c], events[c], tasks[c], cycles[c], s_pc[c], s_sock[c],
      s_data[c], s_length[c], s_exc[c], s_got[c], c2s[c], s2c[c], wire[c],
      broken[c], rawWritten[c]>>

\* A connection nothing disturbs: a simulated client that connected, and its
\* worker.
Undisturbed(c) ==
    c \notin Disturbed /\ c_sock[c] = "connected"

\* The blocking calls of an undisturbed connection's cycle do not block for
\* ever: the task can start a cycle, and while the client waits in recv the
\* reply bytes are there to be received, or its worker is accepted or can be,
\* and is not itself waiting in recv for a request that has not been sent.
CanProceed(c) ==
    /\ (c_pc[c] = "wait" /\ tasks[c] < MaxTasks) => ENABLED ping_pong_task(c)
    /\ (c_pc[c] \in {"read_header", "read_payload"} /\ s2c[c] # <<>>) =>
          ENABLED ping_pong_read(c)
    /\ (c_pc[c] \in {"read_header", "read_payload"} /\ s2c[c] = <<>>) =>
          /\ s_pc[c] = "listen" => ENABLED accept(c)
          /\ s_pc[c] \in {"read_header", "read_payload"} =>
                (c2s[c] # <<>> /\ ENABLED handle_read(c))

\* C6: a step of one connection (a protocol violation, a read or write error,
\* a close, or anything else) changes nothing of another connection; the
\* accept loop takes every pending connection whatever state the other
\* workers are in; and whatever happens on the disturbed connection, the
\* simulated client of an undisturbed connection has no failed cycle, its
\* worker is not terminated, every cycle it has finished is a success, and
\* the next step towards its Pong can always be taken.
C6_Isolation ==
    /\ [][\A c \in Conns : \A d \in Conns \ {c} :
             ConnState(c)' # ConnState(c) => ConnState(d)' = ConnState(d)]_vars
    /\ [](\A c \in HandlerConns :
             (s_pc[c] = "listen" /\ c_sock[c] # "new") => ENABLED accept(c))
    /\ [](\A c \in Conns : Undisturbed(c) =>
             /\ running[c]
             /\ c_exc[c] = "none"
             /\ s_exc[c] = "none"
             /\ s_pc[c] \notin {"terminated", "closed"}
             /\ \A i \in 2..Len(events[c]) :
                   events[c][i] = request_success("ping-pong", 4)
             /\ c_pc[c] = "wait" => Successes(c) = tasks[c]
             /\ CanProceed(c))

\* C6 witness: the worker of connection 1 has terminated on a payload that is
\* not "Ping" and closed the connection, while the client of connection 2 has
\* one successful cycle behind it and waits for the reply of its next one.
C6_Witness ==
    /\ kind[1] = "rawclient"
    /\ s_pc[1] = "closed"
    /\ s_exc[1] = "Unrecognized protocol."
    /\ Undisturbed(2)
    /\ Successes(2) = 1
    /\ c_pc[2] = "read_header"
    /\ s_pc[2] = "send_payload"

\* ------------------------------------------------------- outcome events
EventsNamed(c, name) ==
    {i \in 1..Len(events[c]) : events[c][i].name = name}

\* The client is inside a cycle whose event is not fired yet.
CycleOpen(c) ==
    c_pc[c] \in {"send_payload", "read_header", "read_payload", "decode",
                 "except_fire"}

\* C7: a connect attempt that has ended has fired exactly one "connect" event
\* and a cycle that has ended exactly one "ping-pong" event, each fired by
\* request_success or by request_failure; an attempt that has not ended has
\* fired none yet.  The events are in the order of the attempts.
C7_ExactlyOnceEvents ==
    \A c \in LocustConns :
        /\ Cardinality(EventsNamed(c, "connect")) =
              (IF c_pc[c] = "start" THEN 0 ELSE 1)
        /\ Cardinality(EventsNamed(c, "ping-pong")) =
              cycles[c] - (IF CycleOpen(c) THEN 1 ELSE 0)
        /\ Len(events[c]) = Cardinality(EventsNamed(c, "connect"))
                            + Cardinality(EventsNamed(c, "ping-pong"))
        /\ \A i \in 1..Len(events[c]) :
              /\ events[c][i].hook \in {"request_success", "request_failure"}
              /\ events[c][i].name = (IF i = 1 THEN "connect" ELSE "ping-pong")

\* C7 witness: one connect, one successful cycle and one failed cycle have
\* ended, with three events.
C7_Witness ==
    /\ c_pc[1] = "wait"
    /\ cycles[1] = 2
    /\ Len(events[1]) = 3
    /\ events[1][1].hook = "request_success"
    /\ events[1][2].hook = "request_success"
    /\ events[1][3].hook = "request_failure"
    /\ events[1][3].exception = "Unrecognized protocol."

\* A cycle of the client has failed.
CycleFailed(c) ==
    \E i \in 1..Len(events[c]) :
        events[c][i].name = "ping-pong" /\ events[c][i].hook = "request_failure"

\* C8: from the failure of a cycle on (the exception is caught, or its event
\* is fired), no step writes a byte of the client, receives a byte for it,
\* opens or reopens its socket or starts a cycle, and after the failure event
\* no step fires an event; the socket, once closed, stays closed and the
\* running flag, once off, stays off; between task invocations the client is
\* stopped with its socket closed.
C8_NoRetry ==
    /\ [][\A c \in LocustConns :
             (c_pc[c] = "except_fire" \/ CycleFailed(c)) =>
             /\ ClientBytes(c)' = ClientBytes(c)
             /\ c2s'[c] = c2s[c]
             /\ Len(s2c'[c]) >= Len(s2c[c])
             /\ c_data'[c] = c_data[c]
             /\ c_sock'[c] \in {c_sock[c], "closed"}
             /\ (c_sock[c] = "closed" => c_sock'[c] = "closed")
             /\ (CycleFailed(c) => events'[c] = events[c])
             /\ cycles'[c] = cycles[c]
             /\ c_pc'[c] \in {"except_fire", "except_close", "except_raise",
                               "wait"}
             /\ (~running[c] => ~running'[c])]_vars
    /\ [](\A c \in LocustConns : (CycleFailed(c) /\ c_pc[c] = "wait") =>
             (~running[c] /\ c_sock[c] = "closed"))

\* C8 witness: the first cycle failed and the task was invoked again, without
\* a second cycle.
C8_Witness ==
    /\ CycleFailed(1)
    /\ ~running[1]
    /\ cycles[1] = 1
    /\ tasks[1] = MaxTasks
    /\ c_sock[1] = "closed"

\* C9: a simulated client fires its one "connect" event first and no other
\* later.  When the connect fails the event is the failure event with the
\* cause, the cause propagates to on_start, and from then on the client is
\* stopped: flag off, no cycle, no further event, no byte written, socket
\* never connected.  When it succeeds the event is the success event with
\* response_length 0.
C9_ConnectFailureTerminal ==
    \A c \in LocustConns :
        /\ c_pc[c] = "start" => (events[c] = <<>> /\ c_sock[c] = "new")
        /\ c_pc[c] # "start" =>
              /\ EventsNamed(c, "connect") = {1}
              /\ \/ /\ events[c][1] = [hook |-> "request_success",
                                       request_type |-> "tcp",
                                       name |-> "connect",
                                       response_length |-> 0]
                    /\ c_sock[c] # "new"
                    /\ c_pc[c] # "on_start_except"
                 \/ /\ events[c][1] = [hook |-> "request_failure",
                                       request_type |-> "tcp",
                                       name |-> "connect",
                                       exception |-> "ConnectionError"]
                    /\ Len(events[c]) = 1
                    /\ cycles[c] = 0
                    /\ ClientBytes(c) = <<>>
                    /\ c_sock[c] = "new"
                    /\ IF c_pc[c] = "on_start_except"
                       THEN c_exc[c] = "ConnectionError" /\ running[c]
                       ELSE c_pc[c] = "wait" /\ ~running[c]

\* C9 witness: the connect failed and every task invocation the scheduler had
\* was made on the stopped client.
C9_Witness ==
    /\ events[1] = <<[hook |-> "request_failure", request_type |-> "tcp",
                      name |-> "connect", exception |-> "ConnectionError"]>>
    /\ ~running[1]
    /\ tasks[1] = MaxTasks
    /\ cycles[1] = 0
    /\ c_sock[1] = "new"

\* The failure event of the cycle that is being abandoned, or was last.
LastIsCycleFailure(c) ==
    /\ Len(events[c]) >= 2
    /\ events[c][Len(events[c])].hook = "request_failure"

\* C10 as stated: the connection is closed before the failure event is fired,
\* so a client whose last event is the failure event of a cycle has its
\* socket closed.
C10_CloseBeforeEvent ==
    \A c \in LocustConns : LastIsCycleFailure(c) => c_sock[c] = "closed"

\* C10, amended: on every failure of a cycle the client first fires the
\* failure event with the cause, then closes the socket, then re-raises the
\* cause to the task, which turns the running flag off.
C10_FailurePath ==
    \A c \in LocustConns :
        /\ c_pc[c] = "except_fire" =>
              /\ c_exc[c] # "none"
              /\ c_sock[c] = "connected"
              /\ Cardinality(EventsNamed(c, "ping-pong")) = cycles[c] - 1
              /\ running[c]
        /\ c_pc[c] = "except_close" =>
              /\ LastIsCycleFailure(c)
              /\ events[c][Len(events[c])] =
                    [hook |-> "request_failure", request_type |-> "tcp",
                     name |-> "ping-pong", exception |-> c_exc[c]]
              /\ c_exc[c] # "none"
              /\ c_sock[c] = "connected"
              /\ running[c]
        /\ c_pc[c] = "except_raise" =>
              /\ LastIsCycleFailure(c)
              /\ events[c][Len(events[c])].exception = c_exc[c]
              /\ c_exc[c] # "none"
              /\ c_sock[c] = "closed"
              /\ running[c]
        /\ (c_pc[c] = "wait" /\ LastIsCycleFailure(c)) =>
              /\ c_sock[c] = "closed"
              /\ ~running[c]
              /\ c_exc[c] = "none"
        /\ (~running[c] /\ cycles[c] > 0) => LastIsCycleFailure(c)

\* C10 witness: a cycle failed on a reply that is not "Pong"; the event is
\* fired and the socket closed, and the cause is about to be re-raised.
C10_Witness ==
    /\ c_pc[1] = "except_raise"
    /\ c_exc[1] = "Unrecognized protocol."
    /\ events[1][Len(events[1])] =
          [hook |-> "request_failure", request_type |-> "tcp",
           name |-> "ping-pong", exception |-> "Unrecognized protocol."]
    /\ c_sock[1] = "closed"

\* ------------------------------------------------------ the client's cycle
\* The bytes of the server's side that the client's read_bytes has taken.
Consumed(c) ==
    SubSeq(ServerBytes(c), 1, Len(ServerBytes(c)) - Len(s2c[c]))

\* The event of the last cycle attempted has been fired.
CycleEnded(c) == cycles[c] > 0 /\ Len(events[c]) = 1 + cycles[c]

LastEvent(c) == events[c][Len(events[c])]

\* Successful cycles before the last cycle attempted.
EarlierSuccesses(c) ==
    Successes(c) - (IF LastEvent(c).hook = "request_success" THEN 1 ELSE 0)

\* What the last cycle attempted has taken from the stream.
LastRead(c) ==
    SubSeq(Consumed(c), 8 * EarlierSuccesses(c) + 1, Len(Consumed(c)))

IsWholeFrame(b) == Len(b) >= 4 /\ Len(b) = 4 + LE4(b)

PayloadOf(b) == SubSeq(b, 5, Len(b))

\* C11 as stated: a cycle that read back a whole frame with a payload other
\* than "Pong" ended in a failure event with "Unrecognized protocol.".
C11_OtherPayloadUnrecognized ==
    \A c \in LocustConns :
        (/\ CycleEnded(c)
         /\ IsWholeFrame(LastRead(c))
         /\ PayloadOf(LastRead(c)) # Pong) =>
            LastEvent(c) = [hook |-> "request_failure", request_type |-> "tcp",
                            name |-> "ping-pong",
                            exception |-> "Unrecognized protocol."]

\* C11, amended: a cycle ends in a success event exactly when the whole Ping
\* frame was written and the one frame read back has the payload "Pong"; the
\* event's response_length is 4 and the successful cycles have read Pong
\* frames only.  A frame read back with another payload ends the cycle in a
\* failure event: with "Unrecognized protocol." when the payload is UTF-8,
\* and with the decode error when it is not.
C11_SuccessCondition ==
    \A c \in LocustConns :
        /\ \A i \in 2..Len(events[c]) :
              events[c][i].hook = "request_success" =>
                 events[c][i] = [hook |-> "request_success",
                                 request_type |-> "tcp", name |-> "ping-pong",
                                 response_length |-> 4]
        /\ Len(Consumed(c)) >= 8 * Successes(c)
        /\ SubSeq(Consumed(c), 1, 8 * Successes(c))
              = Repeat(PongFrame, Successes(c))
        /\ Len(ClientBytes(c)) >= 8 * Successes(c)
        /\ CycleEnded(c) =>
              /\ LastEvent(c).hook = "request_success" <=>
                    /\ ClientBytes(c) = Repeat(PingFrame, cycles[c])
                    /\ LastRead(c) = PongFrame
              /\ (IsWholeFrame(LastRead(c)) /\ PayloadOf(LastRead(c)) # Pong) =>
                    /\ LastEvent(c).hook = "request_failure"
                    /\ LastEvent(c).exception =
                          (IF decode(PayloadOf(LastRead(c))) = DecodeError
                           THEN "UnicodeDecodeError"
                           ELSE "Unrecognized protocol.")

\* C11 witness: after a successful cycle a second cycle read back a whole
\* "Ping" frame and failed.
C11_Witness ==
    /\ CycleEnded(1)
    /\ cycles[1] = 2
    /\ events[1][2] = [hook |-> "request_success", request_type |-> "tcp",
                       name |-> "ping-pong", response_length |-> 4]
    /\ LastRead(1) = <<4, 0, 0, 0>> \o Ping
    /\ LastEvent(1).hook = "request_failure"
    /\ LastEvent(1).exception = "Unrecognized protocol."

\* --------------------------------------------------- the worker's last state
Terminated(c) == s_pc[c] \in {"terminated", "closed"}

\* C12: a worker that has caught an exception in handle (a failed read, a
\* failed write, a failed decode, a payload that is not "Ping") has left the
\* loop: no later step takes a byte from its connection, writes a byte to it
\* or hands a payload to the handler; the worker only goes on to close the
\* request and end, and stays ended.  The worker leaves the loop on an
\* exception only.
C12_TerminatedFinal ==
    /\ [][\A c \in HandlerConns : Terminated(c) =>
             /\ Terminated(c)'
             /\ (s_pc[c] = "closed" => s_pc'[c] = "closed")
             /\ (s_pc'[c] # s_pc[c] => s_sock'[c] = "closed")
             /\ ServerBytes(c)' = ServerBytes(c)
             /\ Len(s2c'[c]) <= Len(s2c[c])
             /\ Len(c2s'[c]) >= Len(c2s[c])
             /\ s_got'[c] = s_got[c]
             /\ s_data'[c] = s_data[c]
             /\ s_exc'[c] = s_exc[c]]_vars
    /\ [](\A c \in HandlerConns :
             /\ Terminated(c) <=> s_exc[c] # "none"
             /\ s_pc[c] = "closed" => s_sock[c] = "closed")

\* C12 witness: the worker terminated on "Pingx" with a whole Ping frame
\* queued behind it, which stays unread and unanswered.
C12_Witness ==
    /\ kind[1] = "rawclient"
    /\ s_pc[1] = "closed"
    /\ s_exc[1] = "Unrecognized protocol."
    /\ s_got[1] = <<Pingx>>
    /\ c2s[1] = PingFrame
    /\ ServerBytes(1) = <<>>

\* ------------------------------------------------------------- termination
\* One connection alone (the disturbed one, with each kind of peer).  Every
\* thread of the server that can take a step eventually takes it: the accept
\* loop and each connection's worker are threads of their own.
NextOne == \E c \in Disturbed : Step(c)

ServerFairness ==
    \A c \in Disturbed :
        /\ WF_vars(accept(c))
        /\ WF_vars(handle_read(c))
        /\ WF_vars(handle_decode(c))
        /\ WF_vars(handle_send_payload(c))
        /\ WF_vars(shutdown_request(c))

\* A simulated client that has been started, or is inside a task, goes on
\* whenever its socket call can return.  When the scheduler invokes the task
\* is left open.
ClientFairness ==
    \A c \in Disturbed :
        /\ WF_vars(on_start_except(c))
        /\ WF_vars(ping_pong_send_payload(c))
        /\ WF_vars(ping_pong_read(c))
        /\ WF_vars(ping_pong_decode(c))
        /\ WF_vars(ping_pong_except_fire(c))
        /\ WF_vars(ping_pong_except_close(c))
        /\ WF_vars(ping_pong_except_raise(c))

SpecFair == Init /\ [][NextOne]_vars /\ ServerFairness /\ ClientFairness

\* The peer has written a whole frame whose payload is not "Ping".
BadFrameSent(c) ==
    \E i \in 1..Len(PayloadsIn(ClientBytes(c))) :
        PayloadsIn(ClientBytes(c))[i] # Ping

\* C13: when the peer of a connection of the server has closed its end, or
\* has sent a frame whose payload is not "Ping", the worker eventually
\* terminates and the request is closed; a worker that has left the loop, in
\* whatever way, ends with the request closed; and the request is closed by
\* no other step than the one that follows handle's return.
C13_WorkerTermination ==
    /\ \A c \in Conns :
          (IsHandler(c) /\ (c_sock[c] = "closed" \/ BadFrameSent(c)))
             ~> (s_pc[c] = "closed" /\ s_sock[c] = "closed")
    /\ \A c \in Conns :
          (IsHandler(c) /\ s_pc[c] = "terminated")
             ~> (s_pc[c] = "closed" /\ s_sock[c] = "closed")
    /\ [][\A c \in Conns :
             (IsHandler(c) /\ s_sock'[c] = "closed" /\ s_sock[c] # "closed") =>
                (s_pc[c] = "terminated" /\ s_pc'[c] = "closed")]_vars

\* C13 witness: the peer closed with half a header sent, and the worker has
\* ended on the failed read with the request closed.
C13_Witness ==
    /\ kind[1] = "rawclient"
    /\ c_sock[1] = "closed"
    /\ ClientBytes(1) = <<4, 0>>
    /\ s_exc[1] = "Error reading bytes."
    /\ s_pc[1] = "closed"
    /\ s_sock[1] = "closed"

\* ------------------------------------------------- length of failure events
\* The received length an event reports: its response_length, and no byte
\* when the event is fired without one.
EventLength(e) ==
    IF "response_length" \in DOMAIN e THEN e.response_length ELSE 0

IsPrefix(p, q) == Len(p) <= Len(q) /\ p = SubSeq(q, 1, Len(p))

\* A sendall of the simulated client raised in its last cycle.
ClientWriteFailed(c) ==
    \/ c_pc[c] \in {"except_fire", "except_close", "except_raise"}
       /\ c_exc[c] = "OSError"
    \/ /\ CycleEnded(c)
       /\ LastEvent(c).hook = "request_failure"
       /\ LastEvent(c).exception = "OSError"

\* C15 as stated: a frame is written at once, so whenever a writer of the
\* program is not inside a frame write, what it has put on the stream is
\* whole frames: no header without its payload, also after a failed write.
C15_SingleWrite ==
    \A c \in Conns :
        /\ (IsLocust(c) /\ c_pc[c] # "send_payload") =>
              AfterFrames(ClientBytes(c)) = <<>>
        /\ (IsHandler(c) /\ s_pc[c] # "send_payload") =>
              AfterFrames(ServerBytes(c)) = <<>>

\* C15, amended: a frame is written with two consecutive sendall calls of one
\* thread, the 4-byte header and then the payload.  Each side of a connection
\* has that one writer, so what it has put on the stream is always a prefix
\* of its frames in a row: header and payload of a frame are contiguous and
\* nothing falls between them.  The stream ends inside a frame only between
\* the two writes of that frame (the header is there, the payload is not
\* yet), or after a sendall has raised, which may leave the header, or any
\* part of the frame, without the rest; nothing is written after that.
C15_FrameWrites ==
    \A c \in Conns :
        /\ IsLocust(c) =>
              LET b == ClientBytes(c)
              IN /\ IsPrefix(b, Repeat(PingFrame, cycles[c]))
                 /\ Len(b) >= 8 * (cycles[c] - 1)
                 /\ Len(b) % 8 # 0 =>
                       \/ c_pc[c] = "send_payload" /\ Len(b) % 8 = 4
                       \/ ClientWriteFailed(c)
        /\ IsHandler(c) =>
              LET b == ServerBytes(c)
                  pings == Count(s_got[c], Ping)
              IN /\ IsPrefix(b, Repeat(PongFrame, pings))
                 /\ Len(b) >= 8 * (pings - 1)
                 /\ Len(b) % 8 # 0 =>
                       \/ s_pc[c] = "send_payload" /\ Len(b) % 8 = 4
                       \/ Terminated(c) /\ s_exc[c] = "OSError"

\* C15 witness: the worker wrote the header of its reply, the write of the
\* payload raised, and the worker ended: a header without its payload.
C15_Witness ==
    /\ IsHandler(1)
    /\ s_pc[1] = "closed"
    /\ s_exc[1] = "OSError"
    /\ s_got[1] = <<Ping>>
    /\ ServerBytes(1) = <<4, 0, 0, 0>>

\* ------------------------------------------- the server's close, seen by the client
InCycle(c) ==
    c_pc[c] \in {"send_payload", "read_header", "read_payload", "decode"}

\* What the server has written for the cycle the client is in does not make
\* a whole frame.
NoReply(c) ==
    ~HasFrame(SubSeq(ServerBytes(c), 8 * Successes(c) + 1,
                     Len(ServerBytes(c))))

FailureEvents(c) ==
    {i \in 1..Len(events[c]) : events[c][i].hook = "request_failure"}

\* The client has ended its last cycle in a failure event and is stopped.
StoppedOnFailure(c) ==
    /\ c_pc[c] = "wait"
    /\ ~running[c]
    /\ c_sock[c] = "closed"
    /\ CycleEnded(c)
    /\ LastEvent(c).hook = "request_failure"
    /\ LastEvent(c).name = "ping-pong"
    /\ Cardinality(FailureEvents(c)) = 1

\* C16: a client that is in a cycle on a connection the server's side has
\* closed always gets out of the cycle; when the server has not put a whole
\* reply frame on the stream for it, the cycle ends in one failure event and
\* the client is stopped.  Without a reset of the connection that failure is
\* "Error reading bytes." from the read when the whole Ping frame had been
\* written, and the error of the write otherwise.
C16_ServerCloseObserved ==
    /\ \A c \in Conns :
          (IsLocust(c) /\ s_sock[c] = "closed" /\ InCycle(c))
             ~> (c_pc[c] = "wait" /\ CycleEnded(c))
    /\ \A c \in Conns :
          (IsLocust(c) /\ s_sock[c] = "closed" /\ InCycle(c) /\ NoReply(c))
             ~> StoppedOnFailure(c)
    /\ [](\A c \in Conns :
             (/\ IsLocust(c)
              /\ CycleEnded(c)
              /\ LastEvent(c).hook = "request_failure"
              /\ ~IsWholeFrame(LastRead(c))
              /\ ~broken[c]) =>
                /\ s_sock[c] = "closed"
                /\ LastEvent(c).exception =
                      (IF ClientBytes(c) = Repeat(PingFrame, cycles[c])
                       THEN "Error reading bytes."
                       ELSE "OSError"))

\* C16 witness: the server's side closed without a byte of reply while the
\* client was waiting for it; the read failed, the one failure event is
\* fired and the client is stopped.
C16_Witness ==
    /\ s_sock[1] = "closed"
    /\ ServerBytes(1) = <<>>
    /\ ClientBytes(1) = PingFrame
    /\ StoppedOnFailure(1)
    /\ LastEvent(1).exception = "Error reading bytes."
    /\ tasks[1] = MaxTasks

\* -------------------------------------------------------- header conversion
\* The two conversions of the length header, len(msg).to_bytes(4, 'little')
\* and int.from_bytes(header, 'little'), applied one after the other: to a
\* length first, and to four header bytes first.  The lengths are the small
\* ones and those around the byte boundaries, up to 2^31 - 1.
Lengths ==
    (0..8) \cup {254, 255, 256, 257, 65535, 65536, 65537,
                 16777215, 16777216, 16777217, 2147483647}

Headers ==
    {<<b1, b2, b3, b4>> : b1 \in {0, 4, 255}, b2 \in {0, 4, 255},
                          b3 \in {0, 4, 255}, b4 \in {0, 1, 127}}

InitHeader ==
    /\ InitConns
    /\ kind = [c \in Conns |-> "both"]
    /\ NoFrame
    /\ \/ /\ hd_pc = "encode"
          /\ hd_from = "length"
          /\ hd_in \in Lengths
          /\ hd_length = hd_in
          /\ hd_header = <<>>
       \/ /\ hd_pc = "decode"
          /\ hd_from = "header"
          /\ hd_in \in Headers
          /\ hd_header = hd_in
          /\ hd_length = 0

\* header = length.to_bytes(4, 'little')
HeaderEncode ==
    /\ hd_pc \in {"encode", "encode_back"}
    /\ hd_header' = to_bytes(hd_length)
    /\ hd_pc' = IF hd_pc = "encode" THEN "decode_back" ELSE "done"
    /\ UNCHANGED <<hd_from, hd_in, hd_length>>
    /\ UNCHANGED <<connVars, fr_side, fr_payload, fr_next, fr_wpc, fr_sent,
                   fr_stream, fr_eof, fr_pc, fr_data, fr_length, fr_exc,
                   fr_recvs>>

\* length = int.from_bytes(header, 'little')
HeaderDecode ==
    /\ hd_pc \in {"decode", "decode_back"}
    /\ hd_length' = from_bytes(hd_header)
    /\ hd_pc' = IF hd_pc = "decode" THEN "encode_back" ELSE "done"
    /\ UNCHANGED <<hd_from, hd_in, hd_header>>
    /\ UNCHANGED <<connVars, fr_side, fr_payload, fr_next, fr_wpc, fr_sent,
                   fr_stream, fr_eof, fr_pc, fr_data, fr_length, fr_exc,
                   fr_recvs>>

NextHeader == HeaderEncode \/ HeaderDecode

SpecHeader == InitHeader /\ [][NextHeader]_vars

\* The conversion began with a length (and not with header bytes).
FromLength == hd_from = "length"

C18_OneFailureLast ==
    /\ [](\A c \in Conns : IsLocust(c) =>
             /\ Cardinality(FailureEvents(c)) <= 1
             /\ \A i \in FailureEvents(c) : i = Len(events[c])
             /\ c_pc[c] = "wait" => (~running[c] <=> FailureEvents(c) # {}))
    /\ [][\A c \in Conns : IsLocust(c) =>
             /\ FailureEvents(c) # {} =>
                   (events'[c] = events[c] /\ cycles'[c] = cycles[c])
             /\ IsPrefix(events[c], events'[c])
             /\ ~running[c] => ~running'[c]]_vars

\* C18 witness: the second cycle failed after a successful one and every task
\* invocation has been made.
C18_Witness ==
    /\ Len(events[1]) = 3
    /\ FailureEvents(1) = {3}
    /\ events[1][3].exception = "Unrecognized protocol."
    /\ ~running[1]
    /\ c_pc[1] = "wait"
    /\ tasks[1] = MaxTasks

\* -------------------------------------------------------- zero-length frames
LastGot(c) == s_got[c][Len(s_got[c])]

\* C19: read_bytes(0) makes no recv: a header that declares length 0 is
\* followed by no read of a payload, the empty payload goes to the
\* comparison at once, wherever the stream stands.  The worker that has read
\* such a frame terminates with "Unrecognized protocol." and writes nothing
\* for it, and the client that has read an empty reply ends its cycle in a
\* failure event with "Unrecognized protocol.".
C19_ZeroLengthFrame ==
    \A c \in Conns :
        /\ IsHandler(c) =>
              /\ s_pc[c] = "read_payload" => s_length[c] > 0
              /\ (s_pc[c] = "decode" /\ s_length[c] = 0) =>
                    (s_data[c] = <<>> /\ LastGot(c) = <<>>)
              /\ (s_got[c] # <<>> /\ LastGot(c) = <<>> /\ s_pc[c] # "decode") =>
                    /\ Terminated(c)
                    /\ s_exc[c] = "Unrecognized protocol."
                    /\ ServerBytes(c) = Repeat(PongFrame, Len(s_got[c]) - 1)
        /\ IsLocust(c) =>
              /\ c_pc[c] = "read_payload" => c_length[c] > 0
              /\ (c_pc[c] = "decode" /\ c_length[c] = 0) => c_data[c] = <<>>
              /\ (CycleEnded(c) /\ LastRead(c) = <<0, 0, 0, 0>>) =>
                    LastEvent(c) = [hook |-> "request_failure",
                                    request_type |-> "tcp",
                                    name |-> "ping-pong",
                                    exception |-> "Unrecognized protocol."]

\* C19 witness: the peer sent the header 00 00 00 00 and closed; the worker
\* read the header at the end of the stream and terminated on the empty
\* payload, not on a failed read.
C19_Witness ==
    /\ kind[1] = "rawclient"
    /\ ClientBytes(1) = <<0, 0, 0, 0>>
    /\ c_sock[1] = "closed"
    /\ s_got[1] = <<<<>>>>
    /\ s_pc[1] = "closed"
    /\ s_exc[1] = "Unrecognized protocol."
    /\ ServerBytes(1) = <<>>

====
